---- MODULE Spec2Model ----
(***************************************************************************)
(* Model of main.py: the converter from "zone query" descriptions to BIND9 *)
(* forward zone files, reverse zone files and named.conf.local.            *)
(*                                                                         *)
(* A Python str is a sequence of one-character strings, so that split,     *)
(* strip, startswith, endswith and the attribute regex are computed        *)
(* character by character.  A Python dict is a sequence of <<key, value>>  *)
(* pairs in insertion order.  The contents of a written file are the       *)
(* sequence of the strings passed to write(), in order.                    *)
(***************************************************************************)
EXTENDS Integers, Sequences, FiniteSets, TLC

VARIABLES
    pc,             \* position of main(), or of the function applied
    error,          \* name of the uncaught exception, "" when none
    zone_txt,       \* input: the file ZONE_FILE
    zone_query,     \* input: file name in zone_query/ -> lines of the file
    zones,          \* main: the zone names read from ZONE_FILE
    zi,             \* main: index in zones of the zone being processed
    dns_json,       \* main: the description parsed for the current zone
    reverse_zones,  \* main: subnet -> list of (reversed_ip, domain)
    json_dir,       \* output: file name in json/ -> dumped description
    forward_dir,    \* output: file name in forward_zone/ -> strings written
    reverse_dir,    \* output: file name in reverse_zone/ -> strings written
    named_conf,     \* output: the file named.conf.local
    line,           \* parse_record: the argument
    record          \* parse_record: the value returned

vars == <<pc, error, zone_txt, zone_query, zones, zi, dns_json, reverse_zones,
          json_dir, forward_dir, reverse_dir, named_conf, line, record>>

mainVars == <<zone_txt, zone_query, zones, zi, dns_json, reverse_zones,
              json_dir, forward_dir, reverse_dir, named_conf>>

\* a file that does not exist, and a file with the given contents
NoFile == [exists |-> FALSE, lines |-> <<>>]

File(ls) == [exists |-> TRUE, lines |-> ls]

-----------------------------------------------------------------------------
(* Constants for DNS configuration *)

ZONE_FILE == <<"z","o","n","e",".","t","x","t">>
HIGH_LEVEL_DOMAIN == <<"e","x","a","m","p","l","e",".","c","o","m">>
DOMAIN_NAME == <<"i","n","t","e","r","n","a","l",".","e","x","a","m","p","l","e",".","c","o","m">>
SOA_NS_ENTRY == <<"m","s","t","b","i","n","d",".","e","x","a","m","p","l","e",".","c","o","m">>
SOA_HOSTMASTER_ENTRY == <<"h","o","s","t","m","a","s","t","e","r",".","e","x","a","m","p","l","e",".","c","o","m",".">>
HOST_IPV4 == <<"1","9","2",".","1","6","8",".","0",".","0",".">>

-----------------------------------------------------------------------------
(* str methods *)

Digits == {"0", "1", "2", "3", "4", "5", "6", "7", "8", "9"}

Letters ==
    {"a", "b", "c", "d", "e", "f", "g", "h", "i", "j", "k", "l", "m",
     "n", "o", "p", "q", "r", "s", "t", "u", "v", "w", "x", "y", "z",
     "A", "B", "C", "D", "E", "F", "G", "H", "I", "J", "K", "L", "M",
     "N", "O", "P", "Q", "R", "S", "T", "U", "V", "W", "X", "Y", "Z"}

\* \s of the regex, and the characters strip() and split() drop
Whitespace == {" ", "\t", "\n", "\r", "\f"}

\* \w of the regex
WordChars == Letters \cup Digits \cup {"_"}

\* reversed(s), as a list
RECURSIVE Reversed(_)
Reversed(s) ==
    IF s = <<>> THEN <<>> ELSE Append(Reversed(Tail(s)), Head(s))

RECURSIVE LStripSet(_, _)
LStripSet(s, cs) ==
    IF s # <<>> /\ Head(s) \in cs THEN LStripSet(Tail(s), cs) ELSE s

\* s.strip(chars)
StripSet(s, cs) == Reversed(LStripSet(Reversed(LStripSet(s, cs)), cs))

\* s.strip()
Strip(s) == StripSet(s, Whitespace)

\* s.startswith(p)
StartsWith(s, p) == Len(p) <= Len(s) /\ SubSeq(s, 1, Len(p)) = p

\* s.endswith(p)
EndsWith(s, p) ==
    Len(p) <= Len(s) /\ SubSeq(s, Len(s) - Len(p) + 1, Len(s)) = p

\* index of the first c in s at or after i, 0 when there is none
RECURSIVE IndexFrom(_, _, _)
IndexFrom(s, c, i) ==
    IF i > Len(s) THEN 0
    ELSE IF s[i] = c THEN i
    ELSE IndexFrom(s, c, i + 1)

\* s.split(c): every separator splits, empty parts are kept
RECURSIVE Split(_, _)
Split(s, c) ==
    LET k == IndexFrom(s, c, 1) IN
    IF k = 0 THEN <<s>>
    ELSE <<SubSeq(s, 1, k - 1)>> \o Split(SubSeq(s, k + 1, Len(s)), c)

\* s.split(c, 1): at most one split
Split1(s, c) ==
    LET k == IndexFrom(s, c, 1) IN
    IF k = 0 THEN <<s>>
    ELSE <<SubSeq(s, 1, k - 1), SubSeq(s, k + 1, Len(s))>>

\* length of the longest run of characters of cs that starts at s[i]
RECURSIVE Run(_, _, _)
Run(s, i, cs) ==
    IF i > Len(s) \/ s[i] \notin cs THEN 0 ELSE 1 + Run(s, i + 1, cs)

\* length of the longest run of characters outside cs that starts at s[i]
RECURSIVE RunNot(_, _, _)
RunNot(s, i, cs) ==
    IF i > Len(s) \/ s[i] \in cs THEN 0 ELSE 1 + RunNot(s, i + 1, cs)

\* s.split(): runs of whitespace separate, no empty part
RECURSIVE SplitWS(_)
SplitWS(s) ==
    LET t == LStripSet(s, Whitespace)
        n == RunNot(t, 1, Whitespace)
    IN IF t = <<>> THEN <<>>
       ELSE <<SubSeq(t, 1, n)>> \o SplitWS(SubSeq(t, n + 1, Len(t)))

\* sep.join(parts)
RECURSIVE Join(_, _)
Join(parts, sep) ==
    IF parts = <<>> THEN <<>>
    ELSE IF Len(parts) = 1 THEN parts[1]
    ELSE parts[1] \o sep \o Join(Tail(parts), sep)

\* s.capitalize(), for the lower-case field names it is applied to
Upper(c) ==
    CASE c = "s" -> "S" [] c = "r" -> "R" [] c = "e" -> "E"
      [] c = "m" -> "M" [] OTHER -> c

Capitalize(s) == IF s = <<>> THEN s ELSE <<Upper(s[1])>> \o Tail(s)

DigitVal(c) ==
    CASE c = "0" -> 0 [] c = "1" -> 1 [] c = "2" -> 2 [] c = "3" -> 3
      [] c = "4" -> 4 [] c = "5" -> 5 [] c = "6" -> 6 [] c = "7" -> 7
      [] c = "8" -> 8 [] c = "9" -> 9

\* whether int(s) returns: optional blanks, optional sign, decimal digits
IsInt(s) ==
    LET t == Strip(s)
        u == IF t # <<>> /\ t[1] \in {"+", "-"} THEN Tail(t) ELSE t
    IN u # <<>> /\ \A i \in 1..Len(u) : u[i] \in Digits

RECURSIVE DecVal(_)
DecVal(u) ==
    IF u = <<>> THEN 0
    ELSE 10 * DecVal(SubSeq(u, 1, Len(u) - 1)) + DigitVal(u[Len(u)])

\* int(s), for s with IsInt(s)
Int_(s) ==
    LET t == Strip(s) IN
    IF t[1] = "-" THEN 0 - DecVal(Tail(t))
    ELSE IF t[1] = "+" THEN DecVal(Tail(t))
    ELSE DecVal(t)

-----------------------------------------------------------------------------
(* dict: a sequence of <<key, value>> in insertion order *)

KeySet(d) == {d[i][1] : i \in 1..Len(d)}

Has(d, k) == k \in KeySet(d)

\* d[k], for k with Has(d, k)
Get(d, k) == d[CHOOSE i \in 1..Len(d) : d[i][1] = k][2]

\* d with the value of the key k, which it has, replaced by v
RECURSIVE Replace(_, _, _)
Replace(d, k, v) ==
    IF d = <<>> THEN <<>>
    ELSE IF Head(d)[1] = k THEN <<<<k, v>>>> \o Tail(d)
    ELSE <<Head(d)>> \o Replace(Tail(d), k, v)

\* d[k] = v: a key already present keeps its place
Put(d, k, v) == IF Has(d, k) THEN Replace(d, k, v) ELSE Append(d, <<k, v>>)

\* d.update(e), and dict(pairs) as {}.update(pairs)
RECURSIVE Update(_, _)
Update(d, e) ==
    IF e = <<>> THEN d ELSE Update(Put(d, e[1][1], e[1][2]), Tail(e))

-----------------------------------------------------------------------------
(* parse_record *)

K_type == <<"t","y","p","e">>
K_domain == <<"d","o","m","a","i","n">>
K_ip == <<"i","p">>
K_ttl == <<"t","t","l">>
T_SOA == <<"S","O","A">>
T_NS == <<"N","S">>
T_CNAME == <<"C","N","A","M","E">>
T_A == <<"A">>

\* re.findall(r'(\w+)=([^,\s]+)', s), scanning from s[i]
RECURSIVE FindAllFrom(_, _)
FindAllFrom(s, i) ==
    IF i > Len(s) THEN <<>>
    ELSE LET w == Run(s, i, WordChars)
             v == RunNot(s, i + w + 1, Whitespace \cup {","})
         IN IF w > 0 /\ i + w <= Len(s) /\ s[i + w] = "=" /\ v > 0
            THEN <<<<SubSeq(s, i, i + w - 1),
                     SubSeq(s, i + w + 1, i + w + v)>>>>
                 \o FindAllFrom(s, i + w + 1 + v)
            ELSE FindAllFrom(s, i + 1)

FindAll(s) == FindAllFrom(s, 1)

\* The value of parse_record(l): err names the exception raised ("" when the
\* function returns) and rec is the dictionary returned.
parse_record(l) ==
    LET parts == Split1(Strip(l), ":")
        record_type == Strip(parts[1])
        details == IF Len(parts) > 1 THEN Strip(parts[2]) ELSE <<>>
        rec0 == <<<<K_type, record_type>>>>
        toks == SplitWS(details)
        params == Update(<<>>, FindAll(details))
    IN IF record_type \in {T_SOA, T_NS, T_CNAME}
       THEN IF toks = <<>> THEN [err |-> "IndexError", rec |-> <<>>]
            ELSE [err |-> "",
                  rec |-> Update(Put(rec0, K_domain, toks[1]), params)]
       ELSE IF record_type = T_A
       THEN IF toks = <<>> THEN [err |-> "IndexError", rec |-> <<>>]
            ELSE [err |-> "",
                  rec |-> Update(Put(rec0, K_ip, toks[1]), params)]
       ELSE [err |-> "", rec |-> Update(rec0, params)]

-----------------------------------------------------------------------------
(* parse_file *)

K_root == <<"r","o","o","t">>
K_Records == <<"R","e","c","o","r","d","s">>
K_Children == <<"C","h","i","l","d","r","e","n">>
K_DNS_Records == <<"D","N","S","_","R","e","c","o","r","d","s">>
P_Name == <<"N","a","m","e","=">>

\* [part.split(c) for part in parts]
RECURSIVE SplitAll(_, _)
SplitAll(parts, c) ==
    IF parts = <<>> THEN <<>>
    ELSE <<Split(Head(parts), c)>> \o SplitAll(Tail(parts), c)

\* [part.split('=')[1] for part in line.split(',')], unpacked into three
\* names and converted: err names the exception raised, "" when none.
ParseHeader(l) ==
    LET fields == Split(l, ",")
        halves == SplitAll(fields, "=")
    IN IF \E i \in 1..Len(halves) : Len(halves[i]) < 2
       THEN [err |-> "IndexError"]
       ELSE IF Len(fields) # 3 THEN [err |-> "ValueError"]
       ELSE IF ~IsInt(halves[2][2]) \/ ~IsInt(halves[3][2])
       THEN [err |-> "ValueError"]
       ELSE [err |-> "",
             name |-> IF halves[1][2] = <<>> THEN K_root ELSE halves[1][2],
             node |-> <<<<K_Records, Int_(halves[2][2])>>,
                        <<K_Children, Int_(halves[3][2])>>,
                        <<K_DNS_Records, <<>>>>>>]

\* one pass of the loop of parse_file over the line l
ParseLine(st, l) ==
    LET s == Strip(l) IN
    IF st.err # "" THEN st
    ELSE IF StartsWith(s, P_Name)
    THEN LET h == ParseHeader(s) IN
         IF h.err # "" THEN [st EXCEPT !.err = h.err]
         ELSE [st EXCEPT !.dns_data = Put(st.dns_data, h.name, h.node),
                         !.current_name = h.name]
    ELSE IF s # <<>> /\ st.current_name # <<>>
    THEN LET r == parse_record(s)
             node == Get(st.dns_data, st.current_name)
         IN IF r.err # "" THEN [st EXCEPT !.err = r.err]
            ELSE [st EXCEPT !.dns_data =
                     Put(st.dns_data, st.current_name,
                         Put(node, K_DNS_Records,
                             Append(Get(node, K_DNS_Records), r.rec)))]
    ELSE st

RECURSIVE ParseLines(_, _)
ParseLines(st, ls) ==
    IF ls = <<>> THEN st ELSE ParseLines(ParseLine(st, Head(ls)), Tail(ls))

\* The value of parse_file on a file: err names the exception raised.
\* current_name is None as <<>>, which is as false as None is in line 62.
parse_file(file) ==
    IF ~file.exists
    THEN [err |-> "FileNotFoundError", dns_data |-> <<>>]
    ELSE LET st == ParseLines([err |-> "", dns_data |-> <<>>,
                               current_name |-> <<>>], file.lines)
         IN [err |-> st.err,
             dns_data |-> IF st.err = "" THEN st.dns_data ELSE <<>>]

-----------------------------------------------------------------------------
(* generate_bind9_zone, write_grouped_records *)

RecordsOf(json_data, name) == Get(Get(json_data, name), K_DNS_Records)

TtlOf(rec) == StripSet(Get(rec, K_ttl), {")"})

SoaFields == <<<<"s","e","r","i","a","l">>, <<"r","e","f","r","e","s","h">>, <<"r","e","t","r","y">>, <<"e","x","p","i","r","e">>, <<"m","i","n","t","t","l">>>>

\* lines 76-77: st is [err, text]; a field the SOA lacks raises KeyError
RECURSIVE WriteSoaFields(_, _, _)
WriteSoaFields(st, soa, fields) ==
    IF fields = <<>> \/ st.err # "" THEN st
    ELSE IF ~Has(soa, Head(fields)) THEN [st EXCEPT !.err = "KeyError"]
    ELSE WriteSoaFields(
            [st EXCEPT !.text = Append(@, <<"\t">> \o Get(soa, Head(fields))
                 \o <<"\t",";"," ">> \o Capitalize(Head(fields)) \o <<"\n">>)],
            soa, Tail(fields))

\* lines 88-90: the NS records of the root node
RECURSIVE WriteNsRecords(_, _)
WriteNsRecords(st, recs) ==
    IF recs = <<>> \/ st.err # "" THEN st
    ELSE LET r == Head(recs) IN
         IF Get(r, K_type) # T_NS THEN WriteNsRecords(st, Tail(recs))
         ELSE IF ~Has(r, K_ttl) \/ ~Has(r, K_domain)
         THEN [st EXCEPT !.err = "KeyError"]
         ELSE WriteNsRecords(
                 [st EXCEPT !.text = Append(@, <<"@","\t">> \o TtlOf(r)
                      \o <<"\t","I","N"," ","N","S","\t">> \o Get(r, K_domain) \o <<"\n">>)],
                 Tail(recs))

\* d[k] = [x] in place of d[k].append(x): a plain dict, not a defaultdict
AppendTo_replace(d, k, x) == Put(d, k, <<x>>)

\* defaultdict(list): d[k].append(x), and setdefault(k, []).append(x)
AppendTo(d, k, x) == Put(d, k, Append(IF Has(d, k) THEN Get(d, k) ELSE <<>>, x))

\* lines 99-103 for one node: g is [err, a_records, cname_records]
RECURSIVE GroupNode(_, _, _)
GroupNode(g, domain, recs) ==
    IF recs = <<>> \/ g.err # "" THEN g
    ELSE LET r == Head(recs) IN
         IF Get(r, K_type) = T_A
         THEN IF ~Has(r, K_ttl) \/ ~Has(r, K_ip)
              THEN [g EXCEPT !.err = "KeyError"]
              ELSE GroupNode(
                      [g EXCEPT !.a_records =
                          AppendTo(@, TtlOf(r), <<domain, Get(r, K_ip)>>)],
                      domain, Tail(recs))
         ELSE IF Get(r, K_type) = T_CNAME
         THEN IF ~Has(r, K_ttl) \/ ~Has(r, K_domain)
              THEN [g EXCEPT !.err = "KeyError"]
              ELSE GroupNode(
                      [g EXCEPT !.cname_records =
                          AppendTo(@, TtlOf(r), <<domain, Get(r, K_domain)>>)],
                      domain, Tail(recs))
         ELSE GroupNode(g, domain, Tail(recs))

\* lines 97-103: every node of json_data but root, in the dict's order
RECURSIVE GroupRecords(_, _)
GroupRecords(g, items) ==
    IF items = <<>> \/ g.err # "" THEN g
    ELSE IF Head(items)[1] = K_root THEN GroupRecords(g, Tail(items))
    ELSE GroupRecords(
            GroupNode(g, Head(items)[1], Get(Head(items)[2], K_DNS_Records)),
            Tail(items))

RECURSIVE WriteRecordList(_, _, _)
WriteRecordList(ttl, record_type, record_list) ==
    IF record_list = <<>> THEN <<>>
    ELSE <<Head(record_list)[1] \o <<"\t">> \o ttl \o <<"\t","I","N"," ">> \o record_type
             \o <<"\t">> \o Head(record_list)[2] \o <<"\n">>>>
         \o WriteRecordList(ttl, record_type, Tail(record_list))

RECURSIVE WriteGroups(_, _)
WriteGroups(record_type, records) ==
    IF records = <<>> THEN <<>>
    ELSE <<<<";"," ","T","T","L"," ">> \o Head(records)[1] \o <<"\n">>>>
         \o WriteRecordList(Head(records)[1], record_type, Head(records)[2])
         \o <<<<"\n">>>>
         \o WriteGroups(record_type, Tail(records))

\* the strings write_grouped_records writes
write_grouped_records(record_type, records) ==
    <<<<";"," ">> \o record_type \o <<" ","R","e","c","o","r","d","s","\n">>>>
    \o WriteGroups(record_type, records)

\* line 84
IsHighLevelZone(zone_name) == EndsWith(zone_name, HIGH_LEVEL_DOMAIN)

\* line 85
MstbindARecord == SOA_NS_ENTRY \o <<".","\t","I","N","\t","A","\t">> \o HOST_IPV4 \o <<"\n","\n">>

\* the first record of the root node, whatever its type
SoaRecords_firstRecord(root_records) == root_records

\* line 73: the records next() chooses the first of
SoaRecords(root_records) ==
    SelectSeq(root_records, LAMBDA r : Get(r, K_type) = T_SOA)

\* The run of generate_bind9_zone: err names the exception raised and text
\* is what the output file holds when it is closed (it is opened, and so
\* created or emptied, before anything is looked up).
generate_bind9_zone(json_data, zone_name) ==
    IF ~Has(json_data, K_root) THEN [err |-> "KeyError", text |-> <<>>]
    ELSE
    LET root_records == RecordsOf(json_data, K_root)
        soas == SoaRecords(root_records)
    IN
    IF soas = <<>> THEN [err |-> "StopIteration", text |-> <<>>]
    ELSE IF ~Has(soas[1], K_ttl) THEN [err |-> "KeyError", text |-> <<>>]
    ELSE
    LET soa == soas[1]
        s1 == [err |-> "",
               text |-> <<<<"$","T","T","L"," ">> \o TtlOf(soa) \o <<"\n">>,
                          <<"@"," ","I","N"," ","S","O","A"," ">> \o SOA_NS_ENTRY \o <<"."," ">>
                             \o SOA_HOSTMASTER_ENTRY \o <<" ","(","\n">>>>]
        s2 == WriteSoaFields(s1, soa, SoaFields)
        s3 == [s2 EXCEPT !.text = @ \o
                  <<<<")","\n","\n">>, <<"@","\t","I","N","\t","N","S","\t">> \o SOA_NS_ENTRY \o <<".","\n","\n">>>>
                  \o (IF IsHighLevelZone(zone_name)
                      THEN <<MstbindARecord>> ELSE <<>>)]
        s4 == WriteNsRecords(s3, root_records)
        s5 == [s4 EXCEPT !.text = Append(@, <<"\n">>)]
        g  == GroupRecords([err |-> "", a_records |-> <<>>,
                            cname_records |-> <<>>], json_data)
    IN IF s2.err # "" THEN s2
       ELSE IF s4.err # "" THEN s4
       ELSE IF g.err # "" THEN [err |-> g.err, text |-> s5.text]
       ELSE [err |-> "",
             text |-> s5.text \o write_grouped_records(T_A, g.a_records)
                        \o write_grouped_records(T_CNAME, g.cname_records)]

-----------------------------------------------------------------------------
(* generate_reverse_zone, write_reverse_zone_files *)

\* lines 125-131 for one node: st is [err, reverse_zones]
RECURSIVE ReverseNode(_, _, _)
ReverseNode(st, domain, recs) ==
    IF recs = <<>> \/ st.err # "" THEN st
    ELSE LET r == Head(recs) IN
         IF Get(r, K_type) # T_A THEN ReverseNode(st, domain, Tail(recs))
         ELSE IF ~Has(r, K_ip) THEN [st EXCEPT !.err = "KeyError"]
         ELSE LET ip_parts == Split(Get(r, K_ip), ".")
                  reversed_ip == Join(Reversed(ip_parts), <<".">>)
                  subnet == Join(SubSeq(ip_parts, 1,
                                        IF Len(ip_parts) < 3
                                        THEN Len(ip_parts) ELSE 3), <<".">>)
              IN ReverseNode(
                    [st EXCEPT !.reverse_zones =
                        AppendTo(@, subnet, <<reversed_ip, domain>>)],
                    domain, Tail(recs))

RECURSIVE ReverseItems(_, _)
ReverseItems(st, items) ==
    IF items = <<>> \/ st.err # "" THEN st
    ELSE IF Head(items)[1] = K_root THEN ReverseItems(st, Tail(items))
    ELSE ReverseItems(
            ReverseNode(st, Head(items)[1], Get(Head(items)[2], K_DNS_Records)),
            Tail(items))

\* an index of its own for every zone
generate_reverse_zone_perZone(json_data, rz) ==
    ReverseItems([err |-> "", reverse_zones |-> <<>>], json_data)

\* The run of generate_reverse_zone: the index is updated in place, so what
\* was appended before an exception stays.
generate_reverse_zone(json_data, rz) ==
    ReverseItems([err |-> "", reverse_zones |-> rz], json_data)

\* the strings write_reverse_zone_header writes
write_reverse_zone_header ==
    <<<<"$","T","T","L"," ","8","6","4","0","0","\n">>,
      <<"@"," ","I","N"," ","S","O","A"," ">> \o SOA_NS_ENTRY \o <<"."," ">> \o SOA_HOSTMASTER_ENTRY
         \o <<" ","(","\n">>,
      <<"\t","1"," ",";"," ","S","e","r","i","a","l","\n">>,
      <<"\t","6","0","4","8","0","0"," ",";"," ","R","e","f","r","e","s","h","\n">>,
      <<"\t","8","6","4","0","0"," ",";"," ","R","e","t","r","y","\n">>,
      <<"\t","2","4","1","9","2","0","0"," ",";"," ","E","x","p","i","r","e","\n">>,
      <<"\t","8","6","4","0","0"," ",";"," ","M","i","n","i","m","u","m"," ","T","T","L","\n">>,
      <<")","\n","\n">>,
      <<"@"," ","I","N"," ","N","S"," ">> \o SOA_NS_ENTRY \o <<".","\n","\n">>>>

\* line 137
mstbind_subnet ==
    LET p == Split(HOST_IPV4, ".") IN
    Join(SubSeq(p, 1, IF Len(p) < 3 THEN Len(p) ELSE 3), <<".">>)

\* line 138
reversed_host_ipv4 == Join(Reversed(Split(HOST_IPV4, ".")), <<".">>)

\* lines 144-146
RECURSIVE WritePtrRecords(_)
WritePtrRecords(records) ==
    IF records = <<>> THEN <<>>
    ELSE <<Split(Head(records)[1], ".")[1] \o <<"\t","I","N","\t","P","T","R","\t">>
             \o Head(records)[2] \o <<".">> \o DOMAIN_NAME \o <<".","\n">>>>
         \o WritePtrRecords(Tail(records))

\* line 150
MstbindPtrRecord ==
    Split(reversed_host_ipv4, ".")[1] \o <<"\t","I","N","\t","P","T","R","\t">> \o SOA_NS_ENTRY
       \o <<".","\n">>

\* lines 142-150: what the reverse file of one subnet holds
ReverseFileText(subnet, records) ==
    write_reverse_zone_header \o WritePtrRecords(records)
    \o (IF subnet = mstbind_subnet THEN <<MstbindPtrRecord>> ELSE <<>>)

\* line 141, within reverse_zone/
ReverseFileName(subnet) == <<"d","b",".">> \o subnet \o <<".","a","r","p","a">>

\* write_reverse_zone_files: the directory reverse_zone/ after the call
RECURSIVE write_reverse_zone_files(_, _)
write_reverse_zone_files(rz, dir) ==
    IF rz = <<>> THEN dir
    ELSE write_reverse_zone_files(Tail(rz),
            (ReverseFileName(Head(rz)[1]) :>
                ReverseFileText(Head(rz)[1], Head(rz)[2])) @@ dir)

-----------------------------------------------------------------------------
(* generate_bind9_config, write_zone_config *)

\* the strings write_zone_config writes; db_file is None as <<>>
write_zone_config(zone, zone_type, db_file) ==
    <<<<"z","o","n","e"," ","\"">> \o zone \o <<"\""," ","i","n"," ","{","\n">>,
      <<" "," "," "," ","t","y","p","e"," ","m","a","s","t","e","r",";","\n">>,
      <<" "," "," "," ","f","i","l","e"," ","\"","/","e","t","c","/","b","i","n","d","/">> \o zone_type \o <<"/">>
         \o (IF db_file # <<>> THEN db_file ELSE <<"d","b",".">> \o zone)
         \o <<"\"",";">>,
      <<"\n","}",";","\n","\n">>>>

\* [line.strip() for line in f if line.strip()]
RECURSIVE ReadZones(_)
ReadZones(ls) ==
    IF ls = <<>> THEN <<>>
    ELSE IF Strip(Head(ls)) = <<>> THEN ReadZones(Tail(ls))
    ELSE <<Strip(Head(ls))>> \o ReadZones(Tail(ls))

RECURSIVE ForwardBlocks(_)
ForwardBlocks(zs) ==
    IF zs = <<>> THEN <<>>
    ELSE write_zone_config(Head(zs), <<"f","o","r","w","a","r","d","_","z","o","n","e">>, <<>>)
         \o ForwardBlocks(Tail(zs))

RECURSIVE ReverseBlocks(_)
ReverseBlocks(rz) ==
    IF rz = <<>> THEN <<>>
    ELSE LET subnet == Head(rz)[1]
             reversed_subnet == Join(Reversed(Split(subnet, ".")), <<".">>)
             reverse_zone == reversed_subnet \o <<".","i","n","-","a","d","d","r",".","a","r","p","a">>
         IN write_zone_config(reverse_zone, <<"r","e","v","e","r","s","e","_","z","o","n","e">>,
                              ReverseFileName(subnet))
            \o ReverseBlocks(Tail(rz))

\* the reverse zones written before the forward zones
generate_bind9_config_reverseFirst(input_file, rz) ==
    IF ~input_file.exists
    THEN [err |-> "FileNotFoundError", out |-> NoFile]
    ELSE [err |-> "",
          out |-> File(<<<<"/","/"," ","B","I","N","D"," ","c","o","n","f","i","g","u","r","a","t","i","o","n"," ","f","i","l","e","\n">>,
                         <<" "," "," "," ","/","/"," ","P","l","a","c","e"," ","a","d","d","i","t","i","o","n","a","l"," ","o","p","t","i","o","n","s"," ","h","e","r","e",".","\n","\n","\n">>>>
                       \o ReverseBlocks(rz)
                       \o ForwardBlocks(ReadZones(input_file.lines)))]

\* The run of generate_bind9_config: err names the exception raised and
\* out is the output file after the call.
generate_bind9_config(input_file, rz) ==
    IF ~input_file.exists
    THEN [err |-> "FileNotFoundError", out |-> NoFile]
    ELSE [err |-> "",
          out |-> File(<<<<"/","/"," ","B","I","N","D"," ","c","o","n","f","i","g","u","r","a","t","i","o","n"," ","f","i","l","e","\n">>,
                         <<" "," "," "," ","/","/"," ","P","l","a","c","e"," ","a","d","d","i","t","i","o","n","a","l"," ","o","p","t","i","o","n","s"," ","h","e","r","e",".","\n","\n","\n">>>>
                       \o ForwardBlocks(ReadZones(input_file.lines))
                       \o ReverseBlocks(rz))]

-----------------------------------------------------------------------------
(* main *)

EmptyDir == [n \in {} |-> <<>>]

\* file names within zone_query/, json/ and forward_zone/ (lines 208-216)
QueryFileName(zone) == zone \o <<".","t","x","t">>

JsonFileName(zone) == zone \o <<".","j","s","o","n">>

ForwardFileName(zone) == <<"d","b",".">> \o zone

\* open(name) in a directory
Open(dir, name) == IF name \in DOMAIN dir THEN File(dir[name]) ELSE NoFile

\* dir after open(name, 'w') ... close with the given contents
Written(dir, name, contents) == (name :> contents) @@ dir

Abort(e) == pc' = "aborted" /\ error' = e

\* lines 201-205
ReadZoneList ==
    /\ pc = "start"
    /\ IF ~zone_txt.exists
       THEN Abort("FileNotFoundError") /\ UNCHANGED <<zones, zi>>
       ELSE /\ zones' = ReadZones(zone_txt.lines)
            /\ zi' = 1
            /\ pc' = IF zones' = <<>> THEN "write_reverse" ELSE "parse"
            /\ error' = ""
    /\ UNCHANGED <<zone_txt, zone_query, dns_json, reverse_zones, json_dir,
                   forward_dir, reverse_dir, named_conf, line, record>>

\* the snapshot opened for writing before the description is parsed
ParseZone_opensJsonFirst ==
    /\ pc = "parse"
    /\ LET r == parse_file(Open(zone_query, QueryFileName(zones[zi]))) IN
       IF r.err # ""
       THEN /\ Abort(r.err)
            /\ json_dir' = Written(json_dir, JsonFileName(zones[zi]), <<>>)
            /\ UNCHANGED dns_json
       ELSE /\ dns_json' = r.dns_data /\ pc' = "dump" /\ error' = ""
            /\ UNCHANGED json_dir
    /\ UNCHANGED <<zone_txt, zone_query, zones, zi, reverse_zones,
                   forward_dir, reverse_dir, named_conf, line, record>>

\* lines 208-209
ParseZone ==
    /\ pc = "parse"
    /\ LET r == parse_file(Open(zone_query, QueryFileName(zones[zi]))) IN
       IF r.err # ""
       THEN Abort(r.err) /\ UNCHANGED dns_json
       ELSE dns_json' = r.dns_data /\ pc' = "dump" /\ error' = ""
    /\ UNCHANGED <<zone_txt, zone_query, zones, zi, reverse_zones, json_dir,
                   forward_dir, reverse_dir, named_conf, line, record>>

\* lines 212-213: the snapshot holds the description itself
DumpJson ==
    /\ pc = "dump"
    /\ json_dir' = Written(json_dir, JsonFileName(zones[zi]), dns_json)
    /\ pc' = "forward"
    /\ UNCHANGED <<error, zone_txt, zone_query, zones, zi, dns_json,
                   reverse_zones, forward_dir, reverse_dir, named_conf,
                   line, record>>

\* line 216
GenerateForward ==
    /\ pc = "forward"
    /\ LET r == generate_bind9_zone(dns_json, zones[zi]) IN
       /\ forward_dir' = Written(forward_dir, ForwardFileName(zones[zi]),
                                 r.text)
       /\ IF r.err # "" THEN Abort(r.err)
          ELSE pc' = "reverse" /\ error' = ""
    /\ UNCHANGED <<zone_txt, zone_query, zones, zi, dns_json, reverse_zones,
                   json_dir, reverse_dir, named_conf, line, record>>

\* line 219, and the step of the loop of line 207
CollectReverse ==
    /\ pc = "reverse"
    /\ LET r == generate_reverse_zone(dns_json, reverse_zones) IN
       /\ reverse_zones' = r.reverse_zones
       /\ IF r.err # "" THEN Abort(r.err) /\ UNCHANGED zi
          ELSE /\ error' = ""
               /\ zi' = zi + 1
               /\ pc' = IF zi < Len(zones) THEN "parse" ELSE "write_reverse"
    /\ UNCHANGED <<zone_txt, zone_query, zones, dns_json, json_dir,
                   forward_dir, reverse_dir, named_conf, line, record>>

\* line 222
WriteReverseFiles ==
    /\ pc = "write_reverse"
    /\ reverse_dir' = write_reverse_zone_files(reverse_zones, reverse_dir)
    /\ pc' = "config"
    /\ UNCHANGED <<error, zone_txt, zone_query, zones, zi, dns_json,
                   reverse_zones, json_dir, forward_dir, named_conf,
                   line, record>>

\* line 225
GenerateConfig ==
    /\ pc = "config"
    /\ LET r == generate_bind9_config(zone_txt, reverse_zones) IN
       /\ named_conf' = r.out
       /\ IF r.err # "" THEN Abort(r.err)
          ELSE pc' = "done" /\ error' = ""
    /\ UNCHANGED <<zone_txt, zone_query, zones, zi, dns_json, reverse_zones,
                   json_dir, forward_dir, reverse_dir, line, record>>

Next ==
    \/ ReadZoneList
    \/ ParseZone
    \/ DumpJson
    \/ GenerateForward
    \/ CollectReverse
    \/ WriteReverseFiles
    \/ GenerateConfig

-----------------------------------------------------------------------------
(* Inputs *)

MaxZones == 2

MaxBody == 4

MaxLines == 4

\* all sequences over S of length at most n
SeqsUpTo(S, n) == UNION {[1..k -> S] : k \in 0..n}

RootHeader == <<"N","a","m","e","=",",","R","e","c","o","r","d","s","=","2",",","C","h","i","l","d","r","e","n","=","1">>

SoaLine == <<"S","O","A",":"," ","n","s"," ","s","e","r","i","a","l","=","1",","," ","r","e","f","r","e","s","h","=","2",","," ","r","e","t","r","y","=","3",","," ","e","x","p","i","r","e","=","4",","," ","m","i","n","t","t","l","=","5",","," ","t","t","l","=","6",")">>

NsLine == <<"N","S",":"," ","n","s","1"," ","t","t","l","=","9",")">>

Web1Header == <<"N","a","m","e","=","w","e","b","1",",","R","e","c","o","r","d","s","=","1",",","C","h","i","l","d","r","e","n","=","0">>

DbHeader == <<"N","a","m","e","=","d","b",",","R","e","c","o","r","d","s","=","2",",","C","h","i","l","d","r","e","n","=","0">>

\* lines of ZONE_FILE
ZoneLines ==
    {<<"e","x","a","m","p","l","e",".","c","o","m">>, <<"a",".","e","x","a","m","p","l","e",".","c","o","m">>, <<"m","y","e","x","a","m","p","l","e",".","c","o","m">>, <<"x",".","o","r","g","\n">>,
     <<"\n">>}

\* zone descriptions: a usual one, one that shares a subnet with it, holds a
\* host of the nameserver's subnet and an A record of the apex, one without
\* SOA, one with an A record without ttl, one with an A record without details
ZoneFiles ==
    {<<RootHeader, SoaLine, NsLine, <<>>, Web1Header,
       <<"A",":"," ","1","0",".","0",".","0",".","5"," ","t","t","l","=","6","0">>, <<"N","a","m","e","=","w","w","w",",","R","e","c","o","r","d","s","=","1",",","C","h","i","l","d","r","e","n","=","0">>,
       <<"C","N","A","M","E",":"," ","w","e","b","1"," ","t","t","l","=","3","0">>>>,
     <<RootHeader, SoaLine, <<"A",":"," ","1","0",".","0",".","0",".","9"," ","t","t","l","=","6","0">>, DbHeader,
       <<"A",":"," ","1","0",".","0",".","0",".","6"," ","t","t","l","=","6","0">>, <<"A",":"," ","1","9","2",".","1","6","8",".","0",".","7"," ","t","t","l","=","6","0">>>>,
     <<RootHeader, NsLine, Web1Header, <<"A",":"," ","1","0",".","0",".","0",".","5"," ","t","t","l","=","6","0">>>>,
     <<RootHeader, SoaLine, Web1Header, <<"A",":"," ","1","0",".","1",".","0",".","1">>>>,
     <<RootHeader, SoaLine, Web1Header, <<"A",":">>>>}

\* the state of the program and of its inputs when main is entered
Start(list, files) ==
    /\ pc = "start"
    /\ error = ""
    /\ zone_txt = list
    /\ zone_query = files
    /\ zones = <<>>
    /\ zi = 0
    /\ dns_json = <<>>
    /\ reverse_zones = <<>>
    /\ json_dir = EmptyDir
    /\ forward_dir = EmptyDir
    /\ reverse_dir = EmptyDir
    /\ named_conf = NoFile
    /\ line = <<>>
    /\ record = [err |-> "", rec |-> <<>>]

\* main over a zone list of at most MaxZones lines; any of the listed zones
\* may lack its description
Init ==
    \/ Start(NoFile, EmptyDir)
    \/ \E list \in SeqsUpTo(ZoneLines, MaxZones) :
         \E present \in SUBSET {QueryFileName(z) :
                                   z \in {ReadZones(list)[i] :
                                            i \in 1..Len(ReadZones(list))}} :
           \E files \in [present -> ZoneFiles] : Start(File(list), files)

Spec == Init /\ [][Next]_vars

\* lines of the body of a zone description, after the apex and its SOA
BodyLines ==
    {Web1Header, DbHeader, <<"A",":"," ","1","0",".","0",".","0",".","5"," ","t","t","l","=","6","0">>, <<"A",":"," ","1","0",".","0",".","1",".","6"," ","t","t","l","=","3","0",")">>,
     <<"A",":"," ","1","0",".","0",".","1",".","7"," ","t","t","l","=","3","0">>, <<"C","N","A","M","E",":"," ","w","e","b","1"," ","t","t","l","=","6","0",")">>}

\* main over one zone whose description is an apex with its SOA followed by
\* at most MaxBody body lines
InitZone ==
    \E body \in SeqsUpTo(BodyLines, MaxBody) :
       Start(File(<<<<"e","x","a","m","p","l","e",".","c","o","m">>>>),
             QueryFileName(<<"e","x","a","m","p","l","e",".","c","o","m">>) :>
                (<<RootHeader, SoaLine>> \o body))

SpecZone == InitZone /\ [][Next]_vars

\* lines of a zone description: headers (one of the apex, one malformed),
\* records, a record without details, a blank line
FileLines ==
    {RootHeader, Web1Header, <<"N","a","m","e","=","d","b",",","R","e","c","o","r","d","s","=","2">>, <<"A",":"," ","1","0",".","0",".","0",".","5"," ","t","t","l","=","6","0">>,
     <<"N","S",":"," ","n","s","1"," ","t","t","l","=","9",")">>, <<"A",":">>, <<" "," ","\n">>}

\* main, up to the return of parse_file, over one zone whose description is
\* any sequence of at most MaxLines lines
InitParse ==
    \E ls \in SeqsUpTo(FileLines, MaxLines) :
       Start(File(<<<<"e","x","a","m","p","l","e",".","c","o","m">>>>), QueryFileName(<<"e","x","a","m","p","l","e",".","c","o","m">>) :> ls)

NextParse == ReadZoneList \/ ParseZone

SpecParse == InitParse /\ [][NextParse]_vars

-----------------------------------------------------------------------------
(* parse_record applied to one line *)

RecordTypes == {T_SOA, T_NS, T_CNAME, T_A, <<"M","X">>, <<>>}

Separators == {<<":">>, <<":"," ">>, <<>>}

FirstTokens == {<<>>, <<"1","0",".","0",".","0",".","5">>, <<"n","s","1">>}

Attributes ==
    {<<>>, <<" ","t","t","l","=","6","0">>, <<" ","(","s","e","r","i","a","l","=","1",","," ","t","t","l","=","6","0",","," ","t","t","l","=","7","0",")">>, <<" ","t","y","p","e","=","N","S">>,
     <<" ","i","p","=","1",".","2",".","3",".","4"," ","d","o","m","a","i","n","=","d">>}

RecordLines ==
    {t \o s \o f \o a :
        t \in RecordTypes, s \in Separators, f \in FirstTokens,
        a \in Attributes}

InitRecord ==
    /\ pc = "record"
    /\ error = ""
    /\ line \in RecordLines
    /\ record = [err |-> "", rec |-> <<>>]
    /\ zone_txt = NoFile
    /\ zone_query = EmptyDir
    /\ zones = <<>>
    /\ zi = 0
    /\ dns_json = <<>>
    /\ reverse_zones = <<>>
    /\ json_dir = EmptyDir
    /\ forward_dir = EmptyDir
    /\ reverse_dir = EmptyDir
    /\ named_conf = NoFile

ParseRecord ==
    /\ pc = "record"
    /\ record' = parse_record(line)
    /\ error' = record'.err
    /\ pc' = "record_done"
    /\ UNCHANGED <<line, mainVars>>

NextRecord == ParseRecord

SpecRecord == InitRecord /\ [][NextRecord]_vars

-----------------------------------------------------------------------------
(* Properties *)

Range(s) == {s[i] : i \in 1..Len(s)}

\* the elements of s, each kept at its first occurrence
RECURSIVE Dedup(_)
Dedup(s) ==
    IF s = <<>> THEN <<>>
    ELSE LET t == Dedup(SubSeq(s, 1, Len(s) - 1)) IN
         IF s[Len(s)] \in Range(t) THEN t ELSE Append(t, s[Len(s)])

\* the part of a record line before its first colon and the part after it,
\* both without surrounding blanks
TypeToken(l) ==
    LET s == Strip(l)
        c == IndexFrom(s, ":", 1)
    IN Strip(IF c = 0 THEN s ELSE SubSeq(s, 1, c - 1))

DetailsOf(l) ==
    LET s == Strip(l)
        c == IndexFrom(s, ":", 1)
    IN IF c = 0 THEN <<>> ELSE Strip(SubSeq(s, c + 1, Len(s)))

\* the first whitespace-delimited token of non-empty details
FirstToken(d) == SubSeq(d, 1, RunNot(d, 1, Whitespace))

\* C8: for every record line with non-empty details, parse_record returns a
\* record whose type is the token before the first colon and whose domain
\* (types SOA, NS, CNAME) or ip (type A) is the first token of the details,
\* whatever key=value attributes the details hold.
C8_FieldsWhateverAttributes ==
    (pc = "record_done" /\ DetailsOf(line) # <<>>) =>
        /\ record.err = ""
        /\ Has(record.rec, K_type)
        /\ Get(record.rec, K_type) = TypeToken(line)
        /\ TypeToken(line) \in {T_SOA, T_NS, T_CNAME} =>
              /\ Has(record.rec, K_domain)
              /\ Get(record.rec, K_domain) = FirstToken(DetailsOf(line))
        /\ TypeToken(line) = T_A =>
              /\ Has(record.rec, K_ip)
              /\ Get(record.rec, K_ip) = FirstToken(DetailsOf(line))

\* a line that is empty, has no colon, has an unrecognized type, or has a
\* recognized type and empty details
Malformed(l) ==
    \/ Strip(l) = <<>>
    \/ IndexFrom(Strip(l), ":", 1) = 0
    \/ TypeToken(l) \notin {T_SOA, T_NS, T_CNAME, T_A}
    \/ DetailsOf(l) = <<>>

\* C9: parse_record raises no error for any line, and a malformed line
\* yields a record with its type set and neither domain nor ip.
C9_NoErrorSurfaced ==
    pc = "record_done" =>
        /\ record.err = ""
        /\ Has(record.rec, K_type)
        /\ Malformed(line) =>
              ~Has(record.rec, K_domain) /\ ~Has(record.rec, K_ip)

\* the description the zone being processed is read from
CurrentFile == Open(zone_query, QueryFileName(zones[zi]))

\* parse_file has returned for the current zone, or has raised on a file
\* that exists
ParseReturned == pc = "dump"

ParseRaised ==
    /\ pc = "aborted"
    /\ zones # <<>>
    /\ CurrentFile.exists
    /\ JsonFileName(zones[zi]) \notin DOMAIN json_dir

IsHeader(l) == StartsWith(Strip(l), P_Name)

IsBlank(l) == Strip(l) = <<>>

\* every Name= header has exactly three comma-separated fields
ThreeFieldHeaders(ls) ==
    \A i \in 1..Len(ls) : IsHeader(ls[i]) => Len(Split(Strip(ls[i]), ",")) = 3

\* the name a header declares: what stands between Name= and the first
\* comma, the empty name being the apex
HeaderName(l) ==
    LET s == Strip(l)
        n == SubSeq(s, Len(P_Name) + 1, IndexFrom(s, ",", 1) - 1)
    IN IF n = <<>> THEN K_root ELSE n

\* index of the nearest header before line i, 0 when there is none
RECURSIVE HeaderBefore(_, _)
HeaderBefore(ls, i) ==
    IF i <= 1 THEN 0
    ELSE IF IsHeader(ls[i - 1]) THEN i - 1
    ELSE HeaderBefore(ls, i - 1)

\* the record lines attached to the header at index h: the non-blank lines
\* up to the next header
RECURSIVE LinesAfter(_, _)
LinesAfter(ls, h) ==
    IF h >= Len(ls) \/ IsHeader(ls[h + 1]) THEN <<>>
    ELSE (IF IsBlank(ls[h + 1]) THEN <<>> ELSE <<Strip(ls[h + 1])>>)
         \o LinesAfter(ls, h + 1)

\* the header that creates the node a name ends with: a repeated header
\* creates the node anew (section 4.2), so it is the last one of that name
LastHeader(ls, name) ==
    CHOOSE h \in 1..Len(ls) :
        /\ IsHeader(ls[h]) /\ HeaderName(ls[h]) = name
        /\ \A k \in (h + 1)..Len(ls) :
              ~(IsHeader(ls[k]) /\ HeaderName(ls[k]) = name)

\* C1: on lines whose headers all have three fields parse_file returns a
\* description with exactly one node per distinct header name, the empty
\* name under "root", and every non-blank, non-header line after a header
\* is a record, in file order, of the node of the nearest header before it;
\* lines before the first header and blank lines add no record.
C1_RecordsAttachToNearestHeader ==
    ((ParseReturned \/ ParseRaised) /\ ThreeFieldHeaders(CurrentFile.lines))
    =>
    LET ls == CurrentFile.lines IN
    /\ ParseReturned
    /\ KeySet(dns_json) = {HeaderName(ls[i]) : i \in {j \in 1..Len(ls) : IsHeader(ls[j])}}
    /\ \A i, j \in 1..Len(dns_json) : dns_json[i][1] = dns_json[j][1] => i = j
    /\ \A n \in 1..Len(dns_json) :
          LET lines_n == LinesAfter(ls, LastHeader(ls, dns_json[n][1])) IN
          /\ Len(Get(dns_json[n][2], K_DNS_Records)) = Len(lines_n)
          /\ \A k \in 1..Len(lines_n) :
                /\ parse_record(lines_n[k]).err = ""
                /\ Get(dns_json[n][2], K_DNS_Records)[k]
                      = parse_record(lines_n[k]).rec

\* the description of the i-th zone of the list, and what main writes for it
DescriptionOf(i) ==
    parse_file(Open(zone_query, QueryFileName(zones[i]))).dns_data

ForwardTextOf(i) == generate_bind9_zone(DescriptionOf(i), zones[i]).text

\* the run has stopped on the missing description of the zone at index zi
MissingDescription ==
    /\ pc = "aborted"
    /\ error = "FileNotFoundError"
    /\ zones # <<>>
    /\ QueryFileName(zones[zi]) \notin DOMAIN zone_query

\* C2: when the description of the k-th zone is missing the run aborts with
\* neither snapshot nor forward file written for that zone, and what was
\* written for the zones 1..k-1 is still there as written.
C2_MissingFileAborts ==
    MissingDescription =>
        /\ JsonFileName(zones[zi]) \notin DOMAIN json_dir
        /\ ForwardFileName(zones[zi]) \notin DOMAIN forward_dir
        /\ \A j \in 1..(zi - 1) :
              /\ JsonFileName(zones[j]) \in DOMAIN json_dir
              /\ json_dir[JsonFileName(zones[j])] = DescriptionOf(j)
              /\ ForwardFileName(zones[j]) \in DOMAIN forward_dir
              /\ forward_dir[ForwardFileName(zones[j])] = ForwardTextOf(j)

C2_Witness ==
    /\ MissingDescription
    /\ zi = 2
    /\ ForwardFileName(zones[1]) \in DOMAIN forward_dir
    /\ forward_dir[ForwardFileName(zones[1])] # <<>>

\* generate_bind9_zone has returned for the i-th zone of the list
ForwardWritten(i) == i < zi \/ (i = zi /\ pc = "reverse")

\* a string written to a forward file that is the A record of the
\* nameserver host
IsNameserverARecord(s) == StartsWith(s, SOA_NS_ENTRY \o <<".","\t","I","N","\t","A","\t">>)

\* the zone is the top-level domain or one of its subdomains
UnderHighLevelDomain(zone) ==
    zone = HIGH_LEVEL_DOMAIN \/ EndsWith(zone, <<".">> \o HIGH_LEVEL_DOMAIN)

\* C3: a forward zone file holds the A record of the nameserver host if and
\* only if the zone is the top-level domain or a subdomain of it.
C3_NameserverRecordIffSubdomain ==
    \A i \in 1..Len(zones) :
        ForwardWritten(i) =>
            ((\E s \in Range(forward_dir[ForwardFileName(zones[i])]) :
                 IsNameserverARecord(s))
             <=> UnderHighLevelDomain(zones[i]))

\* the (host, ip) of the A records of the nodes of a description other
\* than root, in the order of the nodes and then of their records
RECURSIVE HostRecords(_, _, _)
HostRecords(json_data, type, field) ==
    IF json_data = <<>> THEN <<>>
    ELSE LET recs == SelectSeq(Get(json_data[1][2], K_DNS_Records),
                               LAMBDA r : Get(r, K_type) = type)
         IN (IF json_data[1][1] = K_root THEN <<>>
             ELSE [k \in 1..Len(recs) |->
                      [host |-> json_data[1][1],
                       value |-> Get(recs[k], field),
                       ttl |-> Get(recs[k], K_ttl)]])
            \o HostRecords(Tail(json_data), type, field)

\* the A records of the hosts of the zones 1..n, in processing order
RECURSIVE HostsUpTo(_)
HostsUpTo(n) ==
    IF n = 0 THEN <<>>
    ELSE HostsUpTo(n - 1) \o HostRecords(DescriptionOf(n), T_A, K_ip)

Octets(ip) == Split(ip, ".")

SubnetOf(ip) ==
    Octets(ip)[1] \o <<".">> \o Octets(ip)[2] \o <<".">> \o Octets(ip)[3]

ReversedIp(ip) ==
    Octets(ip)[4] \o <<".">> \o Octets(ip)[3] \o <<".">> \o Octets(ip)[2]
       \o <<".">> \o Octets(ip)[1]

PtrLine(ip, host) ==
    Octets(ip)[4] \o <<"\t","I","N","\t","P","T","R","\t">> \o host \o <<".">> \o DOMAIN_NAME
       \o <<".","\n">>

\* every entry of the index stays, and stays in its place
IndexOnlyGrows ==
    \A i \in 1..Len(reverse_zones) :
        /\ i <= Len(reverse_zones')
        /\ reverse_zones'[i][1] = reverse_zones[i][1]
        /\ Len(reverse_zones[i][2]) <= Len(reverse_zones'[i][2])
        /\ SubSeq(reverse_zones'[i][2], 1, Len(reverse_zones[i][2]))
              = reverse_zones[i][2]

\* the index and the reverse files at the end of a run
ReverseIndexComplete ==
    pc = "done" =>
        LET hosts == HostsUpTo(Len(zones)) IN
        /\ \A k \in 1..Len(hosts) :
              Len(Octets(hosts[k].value)) = 4 =>
                 LET subnet == SubnetOf(hosts[k].value) IN
                 /\ Has(reverse_zones, subnet)
                 /\ <<ReversedIp(hosts[k].value), hosts[k].host>>
                       \in Range(Get(reverse_zones, subnet))
                 /\ ReverseFileName(subnet) \in DOMAIN reverse_dir
                 /\ PtrLine(hosts[k].value, hosts[k].host)
                       \in Range(reverse_dir[ReverseFileName(subnet)])
        /\ \A i \in 1..Len(reverse_zones) :
              reverse_zones[i][2] =
                 LET mine == SelectSeq(hosts,
                        LAMBDA h : SubnetOf(h.value) = reverse_zones[i][1])
                 IN [k \in 1..Len(mine) |->
                        <<ReversedIp(mine[k].value), mine[k].host>>]

\* C4: after a run every A record a.b.c.d of a host of a processed zone has
\* its pair (d.c.b.a, host) in the index entry of a.b.c and a PTR line keyed
\* on d for host.<internal domain>. in the reverse file of a.b.c; an entry
\* holds the pairs of all the zones in processing order and nothing else (no
\* A record of a root node), and no pair is ever removed or replaced.
C4_ReverseIndexAccumulates ==
    []ReverseIndexComplete /\ [][IndexOnlyGrows]_vars

C4_Witness ==
    /\ pc = "done"
    /\ Len(zones) = 2
    /\ \E i \in 1..Len(reverse_zones) :
          /\ Cardinality({p[2] : p \in Range(reverse_zones[i][2])}) >= 2
          /\ \E r \in Range(RecordsOf(DescriptionOf(2), K_root)) :
                /\ Get(r, K_type) = T_A
                /\ SubnetOf(Get(r, K_ip)) = reverse_zones[i][1]

\* the strings of a section of a forward file the records of the given type
\* make when grouped by ttl: the groups in the order in which their ttl
\* first occurs, each with its records in their order
RECURSIVE GroupsInOrder(_, _, _)
GroupsInOrder(type, recs, ttls) ==
    IF ttls = <<>> THEN <<>>
    ELSE LET mine == SelectSeq(recs,
                        LAMBDA r : StripSet(r.ttl, {")"}) = Head(ttls))
         IN <<<<";"," ","T","T","L"," ">> \o Head(ttls) \o <<"\n">>>>
            \o [k \in 1..Len(mine) |->
                   mine[k].host \o <<"\t">> \o Head(ttls) \o <<"\t","I","N"," ">> \o type
                      \o <<"\t">> \o mine[k].value \o <<"\n">>]
            \o <<<<"\n">>>>
            \o GroupsInOrder(type, recs, Tail(ttls))

SectionOf(type, recs) ==
    GroupsInOrder(type, recs,
        Dedup([k \in 1..Len(recs) |-> StripSet(recs[k].ttl, {")"})]))

\* index of the string s in a file, 0 when it is not there
PositionOf(text, s) ==
    IF s \in Range(text) THEN CHOOSE i \in 1..Len(text) : text[i] = s ELSE 0

\* C5: in the forward file generate_bind9_zone has just written, for each of
\* A and CNAME, the records of the hosts with one ttl value make one single
\* group, the groups come in the order in which their ttl first occurs, and
\* the records of a group follow the order of the nodes and then of the
\* records under a node.
C5_TtlGroupsInFirstSeenOrder ==
    pc = "reverse" =>
        LET text == forward_dir[ForwardFileName(zones[zi])]
            a == PositionOf(text, <<";"," ","A"," ","R","e","c","o","r","d","s","\n">>)
            c == PositionOf(text, <<";"," ","C","N","A","M","E"," ","R","e","c","o","r","d","s","\n">>)
        IN /\ 0 < a /\ a < c
           /\ SubSeq(text, a + 1, c - 1)
                 = SectionOf(T_A, HostRecords(dns_json, T_A, K_ip))
           /\ SubSeq(text, c + 1, Len(text))
                 = SectionOf(T_CNAME, HostRecords(dns_json, T_CNAME, K_domain))

\* a forward file whose A records of one ttl are apart in the description
C5_Witness ==
    /\ pc = "reverse"
    /\ LET recs == HostRecords(dns_json, T_A, K_ip) IN
       \E i, j, k \in 1..Len(recs) :
          /\ i < j /\ j < k
          /\ StripSet(recs[i].ttl, {")"}) = StripSet(recs[k].ttl, {")"})
          /\ StripSet(recs[i].ttl, {")"}) # StripSet(recs[j].ttl, {")"})

\* the name of the reverse zone of a subnet a.b.c
ArpaName(subnet) ==
    Octets(subnet)[3] \o <<".">> \o Octets(subnet)[2] \o <<".">>
       \o Octets(subnet)[1] \o <<".","i","n","-","a","d","d","r",".","a","r","p","a">>

ZoneLineOf(name) == <<"z","o","n","e"," ","\"">> \o name \o <<"\""," ","i","n"," ","{","\n">>

\* C6: named.conf.local holds one block per zone of the master list, in the
\* order of the list, then one block per subnet of the index, in the order
\* in which the subnets were first inserted; a reverse block is named by the
\* octets of the subnet reversed plus .in-addr.arpa and points at the
\* reverse file of that subnet.
C6_ForwardBlocksThenReverseBlocks ==
    pc = "done" =>
        LET conf == named_conf.lines
            hosts == HostsUpTo(Len(zones))
            subnets == Dedup([k \in 1..Len(hosts) |-> SubnetOf(hosts[k].value)])
            n == Len(zones)
            m == Len(subnets)
        IN /\ named_conf.exists
           /\ Len(conf) = 2 + 4 * (n + m)
           /\ \A i \in 1..n : conf[4 * i - 1] = ZoneLineOf(zones[i])
           /\ \A j \in 1..m :
                 /\ conf[4 * (n + j) - 1] = ZoneLineOf(ArpaName(subnets[j]))
                 /\ conf[4 * (n + j) + 1] =
                       <<" "," "," "," ","f","i","l","e"," ","\"","/","e","t","c","/","b","i","n","d","/","r","e","v","e","r","s","e","_","z","o","n","e","/">>
                          \o ReverseFileName(subnets[j]) \o <<"\"",";">>
                 /\ ReverseFileName(subnets[j]) \in DOMAIN reverse_dir

C6_Witness ==
    /\ pc = "done"
    /\ Len(zones) = 2
    /\ zones[1] # zones[2]
    /\ Len(reverse_zones) = 2

\* the root node of the current description holds no SOA record
NoSoa ==
    /\ Has(dns_json, K_root)
    /\ \A r \in Range(RecordsOf(dns_json, K_root)) : Get(r, K_type) # T_SOA

\* C7: on a description whose root node holds no SOA record
\* generate_bind9_zone fails with the missing-SOA condition, no line is in
\* the forward file of the zone, and the zone is taken no further.
C7_MissingSoaIsFatal ==
    (NoSoa /\ pc \notin {"dump", "forward"}) =>
        /\ pc = "aborted"
        /\ error = "StopIteration"
        /\ ForwardFileName(zones[zi]) \in DOMAIN forward_dir
        /\ forward_dir[ForwardFileName(zones[zi])] = <<>>

C7_Witness ==
    /\ pc = "aborted"
    /\ error = "StopIteration"
    /\ NoSoa
    /\ RecordsOf(dns_json, K_root) # <<>>

\* the first three octets of the address of the nameserver, and its last
NameserverSubnet ==
    Octets(HOST_IPV4)[1] \o <<".">> \o Octets(HOST_IPV4)[2] \o <<".">>
       \o Octets(HOST_IPV4)[3]

NameserverLastOctet == Octets(HOST_IPV4)[4]

\* a string written to a reverse file that points at the nameserver
IsNameserverPtr(s) == EndsWith(s, <<"\t","I","N","\t","P","T","R","\t">> \o SOA_NS_ENTRY \o <<".","\n">>)

\* C10: the reverse file of a subnet ends with one extra PTR line for the
\* nameserver if and only if the subnet is the first three octets of the
\* address of the nameserver; the line is keyed on the last octet of that
\* address and points at the name of the nameserver.
C10_NameserverPtrInOwnSubnet ==
    pc \in {"config", "done"} =>
        \A i \in 1..Len(reverse_zones) :
            LET subnet == reverse_zones[i][1]
                text == reverse_dir[ReverseFileName(subnet)]
            IN IF subnet = NameserverSubnet
               THEN /\ text[Len(text)] =
                          NameserverLastOctet \o <<"\t","I","N","\t","P","T","R","\t">>
                             \o SOA_NS_ENTRY \o <<".","\n">>
                    /\ Cardinality({k \in 1..Len(text) :
                                       IsNameserverPtr(text[k])}) = 1
               ELSE \A k \in 1..Len(text) : ~IsNameserverPtr(text[k])

====
